---- MODULE Spec2Model ----
(***************************************************************************)
(* Model of the CPL protocol generator (src/src/modules/cpl_creator.py)    *)
(* and of the viral content analyzer                                       *)
(* (src/src/services/viral_content_analyzer.py).                           *)
(*                                                                         *)
(* Python values are tagged records.  A Python str is a sequence of        *)
(* tokens (the letters of the model's alphabet), so that startswith,       *)
(* substring tests and float() are computed and not assumed.  A dict is a  *)
(* function from str keys (token sequences) to values.                     *)
(***************************************************************************)
EXTENDS Integers, Sequences, FiniteSets, TLC

VARIABLES
    modulo_arg,      \* argument handed to validar_estrutura_cpl / gerar_sumario_executivo
    validacao_ret,   \* outcome of validar_estrutura_cpl(modulo_arg), or Pending
    sumario_ret,     \* outcome of gerar_sumario_executivo(modulo_arg), or Pending
    entrada,         \* arguments of executar_fluxo_completo_cpl / generate_cpl_module
    etapas,          \* session storage written by salvar_etapa: tag -> payload
    gen_pc,          \* position inside generate_cpl_module
    conteudo_modulo, \* what the AI backend returned
    gen_exc,         \* exception being handled by generate_cpl_module, or "none"
    gen_via,         \* return statement generate_cpl_module left through
    gen_ret,         \* value returned by generate_cpl_module
    flow_pc,         \* position inside executar_fluxo_completo_cpl
    estrutura_valida,\* local of executar_fluxo_completo_cpl
    sumario,         \* local of executar_fluxo_completo_cpl
    resultado_final, \* local of executar_fluxo_completo_cpl
    flow_exc,        \* exception caught by executar_fluxo_completo_cpl, or "none"
    flow_ret,        \* value returned by executar_fluxo_completo_cpl
    social_results,  \* 'social_results' of the research file
    youtube_results, \* 'youtube_results' of the research file
    rank_pc,         \* position inside the ranking part of analyze_viral_content
    combined_social_results, \* local of analyze_viral_content
    viral_idx,       \* _identify_viral_content's result, as positions in combined_social_results
    viral_content_identified, \* _identify_viral_content's result
    rank_exc,        \* exception raised by _identify_viral_content, or "none"
    max_captures,    \* argument of analyze_viral_content
    pesquisa,        \* the research file dados_pesquisa_web.json of the session
    dir_sessao_ok,   \* whether analyses_data/{session_id} can be created
    dir_files_ok,    \* whether analyses_data/files/{session_id} can be created
    selenium,        \* whether the browser dependency imports and starts
    an_pc,           \* position inside analyze_viral_content
    an_exc,          \* exception analyze_viral_content handles or raises, or "none"
    an_ret,          \* value returned by analyze_viral_content, or Pending
    resumo_json,     \* content of analise_viral_resumo.json, or Ausente
    erro_json,       \* content of analise_viral_erro.json, or Ausente
    cap_pc,          \* position inside _capture_viral_screenshots
    driver,          \* the browser session: "nenhum", "ativo" or "encerrado"
    cap_i,           \* loop variable i of _capture_viral_screenshots
    expanded_success,\* local of _capture_viral_screenshots
    screenshots,     \* local of _capture_viral_screenshots, the list returned
    arquivos,        \* files of the screenshots directory: records [nome, tamanho]
    tentativas       \* the capture attempts made, in order (what the log lines report)

pure_vars == <<modulo_arg, validacao_ret, sumario_ret>>
gen_vars == <<gen_pc, conteudo_modulo, gen_exc, gen_via, gen_ret>>
flow_vars == <<entrada, etapas, flow_pc, estrutura_valida, sumario, resultado_final, flow_exc, flow_ret>>
rank_vars == <<social_results, youtube_results, rank_pc, combined_social_results, viral_idx,
               viral_content_identified, rank_exc>>
an_vars == <<max_captures, pesquisa, dir_sessao_ok, dir_files_ok, selenium, an_pc, an_exc, an_ret,
             resumo_json, erro_json>>
cap_vars == <<cap_pc, driver, cap_i, expanded_success, screenshots, arquivos, tentativas>>
vars == <<pure_vars, gen_vars, flow_vars, rank_vars, an_vars, cap_vars>>

(***************************************************************************)
(* Python values                                                           *)
(***************************************************************************)
K(s) == <<s>>
PyNone == [t |-> "none"]
PyInt(n) == [t |-> "int", n |-> n]
PyStr(s) == [t |-> "str", s |-> s]
PyList(l) == [t |-> "list", l |-> l]
PyDict(d) == [t |-> "dict", d |-> d]
EmptyDict == PyDict(<<>>)
EmptyList == PyList(<<>>)

\* Outcome of evaluating a Python expression: a value or a raised exception.
Ok(v) == [ok |-> TRUE, v |-> v]
Err(e) == [ok |-> FALSE, exc |-> e]
Bind(r, F(_)) == IF r.ok THEN F(r.v) ELSE r

Pending == [pending |-> TRUE]

IsSubstring(k, s) ==
    \E i \in 1..(Len(s) + 1) : i + Len(k) - 1 <= Len(s) /\ SubSeq(s, i, i + Len(k) - 1) = k

StartsWith(s, p) == Len(s) >= Len(p) /\ SubSeq(s, 1, Len(p)) = p

\* `k in c`
PyIn(k, c) ==
    CASE c.t = "dict" -> Ok(k \in DOMAIN c.d)
      [] c.t = "list" -> Ok(\E i \in 1..Len(c.l) : c.l[i] = PyStr(k))
      [] c.t = "str"  -> Ok(IsSubstring(k, c.s))
      [] OTHER        -> Err("TypeError")

\* `c.get(k, default)`
PyGet(c, k, default) ==
    IF c.t = "dict"
    THEN Ok(IF k \in DOMAIN c.d THEN c.d[k] ELSE default)
    ELSE Err("AttributeError")

\* `c[k]` with a str key
PyGetItem(c, k) ==
    IF c.t = "dict"
    THEN IF k \in DOMAIN c.d THEN Ok(c.d[k]) ELSE Err("KeyError")
    ELSE Err("TypeError")

\* `c[0]`
PyIndex0(c) ==
    CASE c.t = "list" -> IF Len(c.l) > 0 THEN Ok(c.l[1]) ELSE Err("IndexError")
      [] c.t = "str"  -> IF Len(c.s) > 0 THEN Ok(PyStr(<<c.s[1]>>)) ELSE Err("IndexError")
      [] c.t = "dict" -> Err("KeyError")
      [] OTHER        -> Err("TypeError")

\* `len(c)`
PyLen(c) ==
    CASE c.t = "list" -> Ok(Len(c.l))
      [] c.t = "dict" -> Ok(Cardinality(DOMAIN c.d))
      [] c.t = "str"  -> Ok(Len(c.s))
      [] OTHER        -> Err("TypeError")

\* truth value of c
PyTruthy(c) ==
    CASE c.t = "list" -> Len(c.l) > 0
      [] c.t = "dict" -> DOMAIN c.d # {}
      [] c.t = "str"  -> Len(c.s) > 0
      [] c.t = "int"  -> c.n # 0
      [] OTHER        -> FALSE

(***************************************************************************)
(* validar_estrutura_cpl                                                   *)
(***************************************************************************)
campos_obrigatorios == <<K("titulo"), K("descricao"), K("fases"), K("consideracoes_finais")>>

fases_esperadas ==
    <<K("fase_1_arquitetura"), K("fase_2_cpl1"), K("fase_3_cpl2"), K("fase_4_cpl3"), K("fase_5_cpl4")>>

\* for nome in nomes: if nome not in c: return False    (falls through with True)
RECURSIVE TodosPresentes(_, _, _)
TodosPresentes(nomes, c, i) ==
    IF i > Len(nomes) THEN Ok(TRUE)
    ELSE LET r == PyIn(nomes[i], c)
         IN  IF ~r.ok THEN r
             ELSE IF ~r.v THEN Ok(FALSE)
             ELSE TodosPresentes(nomes, c, i + 1)

\* the body of the try block
validar_corpo(modulo_cpl) ==
    Bind(TodosPresentes(campos_obrigatorios, modulo_cpl, 1), LAMBDA campos_ok :
        IF ~campos_ok THEN Ok(FALSE)
        ELSE Bind(PyGet(modulo_cpl, K("fases"), EmptyDict), LAMBDA fases :
                 TodosPresentes(fases_esperadas, fases, 1)))

\* `except Exception as e`
validar_captura(exc) == TRUE

validar_estrutura_cpl(modulo_cpl) ==
    LET r == validar_corpo(modulo_cpl)
    IN  IF r.ok THEN [raised |-> FALSE, v |-> r.v, exc |-> "none"]
        ELSE IF validar_captura(r.exc) THEN [raised |-> FALSE, v |-> FALSE, exc |-> r.exc]
        ELSE [raised |-> TRUE, v |-> FALSE, exc |-> r.exc]

(***************************************************************************)
(* gerar_sumario_executivo                                                 *)
(***************************************************************************)
NaoEspecificado == PyStr(<<"Nao especificado">>)
NaoEspecificada == PyStr(<<"Nao especificada">>)
PrefixoBonus == <<"bonus_">>

\* fases.get("fase_1_arquitetura", {}).get("estrategia", "Não especificada")
estrategia_principal(fases) ==
    Bind(PyGet(fases, K("fase_1_arquitetura"), EmptyDict), LAMBDA arq :
        PyGet(arq, K("estrategia"), NaoEspecificada))

\* the "Extrair evento recomendado" block; None when the condition is false
evento_recomendado(fases) ==
    Bind(PyGet(fases, K("fase_1_arquitetura"), EmptyDict), LAMBDA arquitetura :
    Bind(PyIn(K("versoes_evento"), arquitetura), LAMBDA tem :
        IF ~tem THEN Ok(PyNone)
        ELSE Bind(PyGetItem(arquitetura, K("versoes_evento")), LAMBDA versoes :
                 IF ~PyTruthy(versoes) THEN Ok(PyNone)
                 ELSE Bind(PyIndex0(versoes), LAMBDA primeiro_evento :
                          PyGet(primeiro_evento, K("nome_evento"), NaoEspecificado)))))

\* len([k for k in stack_valor.keys() if k.startswith("bonus_")])
total_bonus(fases) ==
    Bind(PyGet(fases, K("fase_5_cpl4"), EmptyDict), LAMBDA cpl4 :
    Bind(PyGet(cpl4, K("stack_valor"), EmptyDict), LAMBDA stack_valor :
        IF stack_valor.t # "dict" THEN Err("AttributeError")
        ELSE Ok(Cardinality({k \in DOMAIN stack_valor.d : StartsWith(k, PrefixoBonus)}))))

\* len(garantias) if isinstance(garantias, list) else 0
total_garantias(fases) ==
    Bind(PyGet(fases, K("fase_5_cpl4"), EmptyDict), LAMBDA cpl4 :
    Bind(PyGet(cpl4, K("garantias_agressivas"), EmptyList), LAMBDA garantias :
        Ok(IF garantias.t = "list" THEN Len(garantias.l) ELSE 0)))

\* len(fases.get(fase, {}).get(campo, []))
conta_itens(fases, fase, campo) ==
    Bind(PyGet(fases, fase, EmptyDict), LAMBDA f :
    Bind(PyGet(f, campo, EmptyList), LAMBDA itens : PyLen(itens)))

total_elementos(fases, bonus) ==
    Bind(conta_itens(fases, K("fase_2_cpl1"), K("teasers")), LAMBDA n2 :
    Bind(conta_itens(fases, K("fase_3_cpl2"), K("casos_sucesso_detalhados")), LAMBDA n3 :
    Bind(conta_itens(fases, K("fase_4_cpl3"), K("estrutura_passo_passo")), LAMBDA n4 :
        Ok(n2 + n3 + n4 + bonus))))

LimiteAlto == 20
LimiteBaixo == 10


\* the thresholds taken inclusively
nivel_complexidade_inclusivo(total) ==
    IF total >= LimiteAlto THEN "Alto"
    ELSE IF total <= LimiteBaixo THEN "Baixo"
    ELSE "Medio"

nivel_complexidade(total) ==
    IF total > LimiteAlto THEN "Alto"
    ELSE IF total < LimiteBaixo THEN "Baixo"
    ELSE "Medio"

\* the key the guarantees count is stored under
chave_garantias == "total_garantias"

\* the dict built at sumario = {...} and the later item assignments
sumario_dict(titulo, n_fases, estrategia, evento, bonus, garantias, total) ==
    LET base == [titulo_protocolo |-> titulo,
                 total_fases |-> n_fases,
                 estrategia_principal |-> estrategia,
                 evento_recomendado |-> evento,
                 total_bonus |-> bonus,
                 garantias_oferecidas |-> 0,
                 nivel_complexidade |-> nivel_complexidade(total),
                 tempo_implementacao_estimado |-> "7-14 dias"]
    IN  (chave_garantias :> garantias) @@ base

\* the body of the try block
sumario_corpo(modulo_cpl) ==
    Bind(PyGet(modulo_cpl, K("fases"), EmptyDict), LAMBDA fases :
    Bind(PyGet(modulo_cpl, K("titulo"), NaoEspecificado), LAMBDA titulo :
    Bind(PyLen(fases), LAMBDA n_fases :
    Bind(estrategia_principal(fases), LAMBDA estrategia :
    Bind(evento_recomendado(fases), LAMBDA evento :
    Bind(total_bonus(fases), LAMBDA bonus :
    Bind(total_garantias(fases), LAMBDA garantias :
    Bind(total_elementos(fases, bonus), LAMBDA total :
        Ok(sumario_dict(titulo, n_fases, estrategia, evento, bonus, garantias, total))))))))))

\* the dict returned by the except block
sumario_erro(exc) ==
    [titulo_protocolo |-> PyStr(<<"Erro na geracao">>),
     total_fases |-> 0,
     estrategia_principal |-> NaoEspecificada,
     erro |-> exc]


\* a handler for the lookup errors only
sumario_captura_lookup(exc) == exc \in {"KeyError", "IndexError"}

\* `except Exception as e`
sumario_captura(exc) == TRUE

gerar_sumario_executivo(modulo_cpl) ==
    LET r == sumario_corpo(modulo_cpl)
    IN  IF r.ok THEN [raised |-> FALSE, v |-> r.v, exc |-> "none"]
        ELSE IF sumario_captura(r.exc) THEN [raised |-> FALSE, v |-> sumario_erro(r.exc), exc |-> r.exc]
        ELSE [raised |-> TRUE, v |-> sumario_erro(r.exc), exc |-> r.exc]

(***************************************************************************)
(* generate_cpl_module: the expressions it evaluates                       *)
(***************************************************************************)
PyObj == [t |-> "obj"]     \* a value json cannot serialise (a set, a datetime)

\* `v[:n]`
PySlice(v, n) ==
    CASE v.t = "list" -> Ok(PyList(SubSeq(v.l, 1, IF Len(v.l) < n THEN Len(v.l) ELSE n)))
      [] v.t = "str"  -> Ok(PyStr(SubSeq(v.s, 1, IF Len(v.s) < n THEN Len(v.s) ELSE n)))
      [] OTHER        -> Err("TypeError")

\* json.dumps(v) succeeds
RECURSIVE Serializavel(_)
Serializavel(v) ==
    CASE v.t = "obj"  -> FALSE
      [] v.t = "list" -> \A i \in 1..Len(v.l) : Serializavel(v.l[i])
      [] v.t = "dict" -> \A k \in DOMAIN v.d : Serializavel(v.d[k])
      [] OTHER        -> TRUE

\* contexto_estrategico.get(chave, [])[:n] if contexto_estrategico else []
amostra(contexto_estrategico, chave, n) ==
    IF ~PyTruthy(contexto_estrategico) THEN Ok(EmptyList)
    ELSE Bind(PyGet(contexto_estrategico, chave, EmptyList), LAMBDA v : PySlice(v, n))

MaxDadosWeb == 5
MaxTermos == 10
MaxAmostra == 5

\* {k: v for k, v in list(dados_web.items())[:5]} if dados_web else {}
\* (which five entries are kept depends on the dict's insertion order, which a
\* function does not carry: some five are kept)
amostra_dados_web(dados_web) ==
    IF ~PyTruthy(dados_web) THEN Ok(EmptyDict)
    ELSE IF dados_web.t # "dict" THEN Err("AttributeError")
    ELSE IF Cardinality(DOMAIN dados_web.d) <= MaxDadosWeb THEN Ok(dados_web)
    ELSE Ok(PyDict([k \in CHOOSE ks \in SUBSET DOMAIN dados_web.d : Cardinality(ks) = MaxDadosWeb
                       |-> dados_web.d[k]]))

\* contexto_para_ia, then json.dumps of it inside the prompt
contexto_para_ia(e) ==
    Bind(amostra_dados_web(e.dados_web), LAMBDA dados :
    Bind(amostra(e.contexto_estrategico, K("termos_chave"), MaxTermos), LAMBDA termos :
    Bind(amostra(e.contexto_estrategico, K("objecoes"), MaxAmostra), LAMBDA objecoes :
    Bind(amostra(e.contexto_estrategico, K("tendencias"), MaxAmostra), LAMBDA tendencias :
    Bind(amostra(e.contexto_estrategico, K("casos_sucesso"), MaxAmostra), LAMBDA casos :
        LET ctx == PyDict((K("sintese_analise") :> e.sintese_master)
                       @@ (K("avatar_cliente") :> e.avatar_data)
                       @@ (K("contexto_estrategico") :> e.contexto_estrategico)
                       @@ (K("dados_pesquisa_web") :> dados)
                       @@ (K("termos_chave") :> termos)
                       @@ (K("objecoes_identificadas") :> objecoes)
                       @@ (K("tendencias_mercado") :> tendencias)
                       @@ (K("casos_sucesso_reais") :> casos))
        IN  IF Serializavel(ctx) THEN Ok(ctx) ELSE Err("TypeError"))))))

\* What generate_with_active_search hands back: it raises, or returns text
\* that is the JSON encoding of a document, text that is no JSON, or no text.
IARaise == [kind |-> "raise"]
IASemTexto == [kind |-> "none"]
IATextoInvalido == [kind |-> "texto"]
IAJson(doc) == [kind |-> "json", doc |-> doc]

\* json.loads(conteudo_modulo)
json_loads(conteudo) ==
    CASE conteudo.kind = "json"  -> Ok(conteudo.doc)
      [] conteudo.kind = "texto" -> Err("JSONDecodeError")
      [] OTHER                   -> Err("TypeError")

consideracoes_padrao ==
    PyDict((K("impacto_previsto") :> PyStr(<<"Nao aplicavel">>))
        @@ (K("diferenciais") :> EmptyList)
        @@ (K("proximos_passos") :> PyList(<<PyStr(<<"Verificar logs de erro">>),
                                             PyStr(<<"Tentar regenerar o modulo">>)>>)))

fallback_cpl ==
    PyDict((K("titulo") :> PyStr(<<"Protocolo de CPLs Devastadores">>))
        @@ (K("descricao") :> PyStr(<<"Protocolo gerado com base nos dados estrategicos disponiveis">>))
        @@ (K("fases") :> EmptyDict)
        @@ (K("consideracoes_finais") :> consideracoes_padrao))

erro_cpl(exc) ==
    PyDict((K("titulo") :> PyStr(<<"Protocolo de CPLs - Erro na Geracao">>))
        @@ (K("descricao") :> PyStr(<<"Nao foi possivel gerar o protocolo completo devido a: ", exc>>))
        @@ (K("fases") :> EmptyDict)
        @@ (K("consideracoes_finais") :> consideracoes_padrao))


\* the returned structure saved as the payload
erro_payload_completo(exc) == erro_cpl(exc)

\* the payload saved under "cpl_erro"
erro_payload(exc) == PyDict(K("erro") :> PyStr(<<exc>>))

\* `except Exception as e` of generate_cpl_module
gerar_captura(exc) == TRUE

\* salvar_etapa(tag, payload, ...) when it succeeds; when it raises, storage is unchanged
Ausente == [ausente |-> TRUE]
Tags == {"cpl_completo", "cpl_erro", "fluxo_cpl_completo"}
salvar_etapa(armazenado, tag, payload) == [armazenado EXCEPT ![tag] = payload]

(***************************************************************************)
(* executar_fluxo_completo_cpl: the expressions it evaluates               *)
(***************************************************************************)
SessionId == "sessao"
Timestamp == "agora"

\* len(modulo_cpl.get("fases", {}))
total_fases_geradas(modulo_cpl) ==
    Bind(PyGet(modulo_cpl, K("fases"), EmptyDict), LAMBDA fases : PyLen(fases))

compilar_resultado(modulo_cpl, valida, sum, n_fases, e) ==
    [modulo_cpl |-> modulo_cpl,
     validacao |-> [estrutura_valida |-> valida,
                    timestamp_geracao |-> Timestamp,
                    session_id |-> SessionId],
     sumario_executivo |-> sum,
     metadados |-> [versao_sistema |-> "ARQV30 Enhanced v3.0",
                    modulo |-> "CPL Creator",
                    total_fases_geradas |-> n_fases,
                    contexto_utilizado |->
                        [sintese_master |-> PyTruthy(e.sintese_master),
                         avatar_data |-> PyTruthy(e.avatar_data),
                         contexto_estrategico |-> PyTruthy(e.contexto_estrategico),
                         dados_web |-> PyTruthy(e.dados_web)]]]

\* the dict returned by the except block
resultado_erro(exc) ==
    [modulo_cpl |-> EmptyDict,
     validacao |-> [estrutura_valida |-> FALSE,
                    erro |-> exc,
                    timestamp_geracao |-> Timestamp,
                    session_id |-> SessionId],
     sumario_executivo |-> [erro |-> exc],
     metadados |-> [versao_sistema |-> "ARQV30 Enhanced v3.0",
                    modulo |-> "CPL Creator",
                    status |-> "erro"]]


\* a handler for the errors of the data only
fluxo_captura_dados(exc) == exc \in {"TypeError", "AttributeError", "KeyError", "ValueError"}

\* `except Exception as e` of executar_fluxo_completo_cpl
fluxo_captura(exc) == TRUE

(***************************************************************************)
(* ViralContentAnalyzer._identify_viral_content                            *)
(***************************************************************************)
Digitos == {"0", "1", "2", "3", "4", "5", "6", "7", "8", "9"}

ValorDigito(c) ==
    CASE c = "0" -> 0 [] c = "1" -> 1 [] c = "2" -> 2 [] c = "3" -> 3 [] c = "4" -> 4
      [] c = "5" -> 5 [] c = "6" -> 6 [] c = "7" -> 7 [] c = "8" -> 8 [] c = "9" -> 9

RECURSIVE ValorDecimal(_)
ValorDecimal(s) ==
    IF s = <<>> THEN 0
    ELSE 10 * ValorDecimal(SubSeq(s, 1, Len(s) - 1)) + ValorDigito(s[Len(s)])

\* float(v), for the numbers and strings of the model (unsigned decimal
\* integers; any other text is not a number)
PyFloat(v) ==
    CASE v.t = "int" -> Ok(v.n)
      [] v.t = "str" -> IF Len(v.s) > 0 /\ \A i \in 1..Len(v.s) : v.s[i] \in Digitos
                        THEN Ok(ValorDecimal(v.s))
                        ELSE Err("ValueError")
      [] OTHER       -> Err("TypeError")

\* `except (ValueError, TypeError)` of sort_key
sort_key_captura(exc) == exc \in {"ValueError", "TypeError"}

\* item.get('viral_score', item.get('engagement_rate', 0))
pontuacao_bruta(item) ==
    Bind(PyGet(item, K("engagement_rate"), PyInt(0)), LAMBDA taxa :
        PyGet(item, K("viral_score"), taxa))

sort_key(item) ==
    LET r == Bind(pontuacao_bruta(item), LAMBDA v : PyFloat(v))
    IN  IF r.ok THEN r
        ELSE IF sort_key_captura(r.exc) THEN Ok(0)
        ELSE r


\* a sort that is not stable: an element goes before the elements of equal key
Inserir_instavel(ordenados, x, chaves) ==
    LET antes == Cardinality({j \in 1..Len(ordenados) : chaves[ordenados[j]] > chaves[x]})
    IN  SubSeq(ordenados, 1, antes) \o <<x>> \o SubSeq(ordenados, antes + 1, Len(ordenados))

\* one element placed into a list already sorted: after every element whose
\* key is not smaller, so that equal keys keep their order (sorted is stable,
\* also with reverse=True)
Inserir(ordenados, x, chaves) ==
    LET antes == Cardinality({j \in 1..Len(ordenados) : chaves[ordenados[j]] >= chaves[x]})
    IN  SubSeq(ordenados, 1, antes) \o <<x>> \o SubSeq(ordenados, antes + 1, Len(ordenados))

\* sorted(all_social_results, key=sort_key, reverse=True), as the positions
\* of the elements in all_social_results
RECURSIVE OrdenarAte(_, _)
OrdenarAte(chaves, n) ==
    IF n = 0 THEN <<>> ELSE Inserir(OrdenarAte(chaves, n - 1), n, chaves)

LimiteViral == 20

\* content.get('url', '') for the element at position i
url_de(itens, i) == PyGet(itens[i], K("url"), PyStr(<<>>))

\* `url not in seen_urls`: a url that is a list or a dict cannot be hashed
Hashable(v) == v.t \notin {"list", "dict"}

\* a loop over sorted_content that admits one element more than the limit
RECURSIVE Selecionar_maisUm(_, _, _, _)
Selecionar_maisUm(itens, ordenados, p, escolhidos) ==
    IF p > Len(ordenados) THEN Ok(escolhidos)
    ELSE LET u == url_de(itens, ordenados[p])
         IN  IF ~u.ok THEN u
             ELSE IF ~PyTruthy(u.v) THEN Selecionar_maisUm(itens, ordenados, p + 1, escolhidos)
             ELSE IF ~Hashable(u.v) THEN Err("TypeError")
             ELSE IF /\ \A q \in 1..Len(escolhidos) : url_de(itens, escolhidos[q]).v # u.v
                     /\ Len(escolhidos) <= LimiteViral
                  THEN Selecionar_maisUm(itens, ordenados, p + 1, Append(escolhidos, ordenados[p]))
                  ELSE Selecionar_maisUm(itens, ordenados, p + 1, escolhidos)

\* the loop over sorted_content
RECURSIVE Selecionar(_, _, _, _)
Selecionar(itens, ordenados, p, escolhidos) ==
    IF p > Len(ordenados) THEN Ok(escolhidos)
    ELSE LET u == url_de(itens, ordenados[p])
         IN  IF ~u.ok THEN u
             ELSE IF ~PyTruthy(u.v) THEN Selecionar(itens, ordenados, p + 1, escolhidos)
             ELSE IF ~Hashable(u.v) THEN Err("TypeError")
             ELSE IF /\ \A q \in 1..Len(escolhidos) : url_de(itens, escolhidos[q]).v # u.v
                     /\ Len(escolhidos) < LimiteViral
                  THEN Selecionar(itens, ordenados, p + 1, Append(escolhidos, ordenados[p]))
                  ELSE Selecionar(itens, ordenados, p + 1, escolhidos)

\* the positions, in all_social_results, of the elements returned
identify_viral_content(all_social_results) ==
    IF Len(all_social_results) = 0 THEN Ok(<<>>)
    ELSE IF \E i \in 1..Len(all_social_results) : ~sort_key(all_social_results[i]).ok
    THEN Err("AttributeError")
    ELSE LET chaves == [i \in 1..Len(all_social_results) |-> sort_key(all_social_results[i]).v]
         IN  Selecionar(all_social_results, OrdenarAte(chaves, Len(all_social_results)), 1, <<>>)

(***************************************************************************)
(* ViralContentAnalyzer._capture_viral_screenshots and the two capture     *)
(* attempts                                                                *)
(***************************************************************************)
\* str.lower() on one token of the model's alphabet
Minuscula(c) ==
    CASE c = "Facebook"  -> "facebook"
      [] c = "INSTAGRAM" -> "instagram"
      [] OTHER           -> c

\* `v.lower()`
PyLower(v) ==
    IF v.t = "str" THEN Ok(PyStr([i \in 1..Len(v.s) |-> Minuscula(v.s[i])]))
    ELSE Err("AttributeError")

\* the decimal digits of n
RECURSIVE Decimal(_)
Decimal(n) == IF n < 10 THEN <<ToString(n)>> ELSE Decimal(n \div 10) \o <<ToString(n % 10)>>

\* f"{index:02d}"
DoisDigitos(index) == IF index < 10 THEN <<"0">> \o Decimal(index) ELSE Decimal(index)

\* f"viral_post_{index:02d}.png"
nome_expandida(index) == <<"viral_post_">> \o DoisDigitos(index) \o <<".png">>

\* a full-page file named as the expanded-view file
nome_normal_post(index) == <<"viral_post_">> \o DoisDigitos(index) \o <<".png">>

\* f"viral_web_{index:02d}.png"
nome_normal(index) == <<"viral_web_">> \o DoisDigitos(index) \o <<".png">>

expand_selectors_instagram ==
    <<"button[aria-label='Ver foto']",
      "button[aria-label='View photo']",
      "button svg[aria-label='Ver foto']",
      "button svg[aria-label='View photo']",
      "div[role='button'] > div > div[style*='background-image']">>

expand_selectors_facebook ==
    <<"div[role='main'] div[data-sigil='mfeed_pivots_message feed-story-highlight-candidate'] img",
      "div[data-pagelet='Feed'] div[data-ad-preview='message'] img",
      "a[href*='/photo.php'] img",
      "a[href*='/photos/'] img">>

\* `for selector in expand_selectors`: the selectors are tried in order from
\* the k-th on; casam holds the selectors for which a clickable element is
\* found and clicked; every other one raises and the loop continues.
\* tentados is the number of selectors tried.
RECURSIVE procurar(_, _, _)
procurar(expand_selectors, casam, k) ==
    IF k > Len(expand_selectors) THEN [clicked |-> FALSE, tentados |-> Len(expand_selectors)]
    ELSE IF expand_selectors[k] \in casam THEN [clicked |-> TRUE, tentados |-> k]
    ELSE procurar(expand_selectors, casam, k + 1)

\* the selector search of _attempt_expanded_view_capture
tentar_clique(platform, casam) ==
    IF PyIn(K("instagram"), platform).v THEN procurar(expand_selectors_instagram, casam, 1)
    ELSE IF PyIn(K("facebook"), platform).v THEN procurar(expand_selectors_facebook, casam, 1)
    ELSE [clicked |-> FALSE, tentados |-> 0]

LimiteTamanho == 1024

\* driver.save_screenshot(path): the file is created or replaced
salvar_screenshot(disco, nome, tamanho) ==
    {f \in disco : f.nome # nome} \cup {[nome |-> nome, tamanho |-> tamanho]}

\* a size check that accepts a file of exactly the limit
arquivo_valido_inclusivo(disco, nome) ==
    \E f \in disco : f.nome = nome /\ f.tamanho >= LimiteTamanho

\* os.path.exists(screenshot_path) and os.path.getsize(screenshot_path) > 1024
arquivo_valido(disco, nome) ==
    \E f \in disco : f.nome = nome /\ f.tamanho > LimiteTamanho

\* if os.path.exists(screenshot_path): os.remove(screenshot_path)
remover(disco, nome) == {f \in disco : f.nome # nome}

\* the dict appended to screenshots_list
registro(content, filename, url, platform, metodo) ==
    [content_data   |-> content,
     filename       |-> filename,
     url            |-> url,
     title          |-> PyGet(content, K("title"), PyStr(<<>>)).v,
     platform       |-> platform,
     viral_score    |-> pontuacao_bruta(content).v,
     capture_method |-> metodo]

\* from save_screenshot to the return; amb.salva is whether save_screenshot
\* returns (it raises otherwise) and amb.tamanho the size of the file it
\* writes.  salvo and tamanho report the file that was written.
salvar_e_verificar(nome, metodo, url, platform, content, screenshots_list, disco, amb) ==
    IF ~amb.salva
    THEN [ret |-> FALSE, lista |-> screenshots_list, disco |-> disco, salvo |-> FALSE, tamanho |-> 0]
    ELSE LET salvo == salvar_screenshot(disco, nome, amb.tamanho)
         IN  IF arquivo_valido(salvo, nome)
             THEN [ret   |-> TRUE,
                   lista |-> Append(screenshots_list, registro(content, nome, url, platform, metodo)),
                   disco |-> salvo, salvo |-> TRUE, tamanho |-> amb.tamanho]
             ELSE [ret |-> FALSE, lista |-> screenshots_list, disco |-> remover(salvo, nome),
                   salvo |-> TRUE, tamanho |-> amb.tamanho]

\* _attempt_expanded_view_capture; amb.navega is whether driver.get and the
\* wait for the body succeed.  Every exception ends in `return False`.
attempt_expanded_view_capture(url, platform, index, content, screenshots_list, disco, amb) ==
    IF ~amb.navega
    THEN [ret |-> FALSE, lista |-> screenshots_list, disco |-> disco, salvo |-> FALSE,
          tamanho |-> 0, clicked |-> FALSE, tentados |-> 0]
    ELSE LET busca == tentar_clique(platform, amb.casam)
             fim == salvar_e_verificar(nome_expandida(index), "expanded_view", url, platform,
                                       content, screenshots_list, disco, amb)
         IN  [ret |-> fim.ret, lista |-> fim.lista, disco |-> fim.disco, salvo |-> fim.salvo,
              tamanho |-> fim.tamanho, clicked |-> busca.clicked, tentados |-> busca.tentados]

\* _attempt_normal_page_capture
attempt_normal_page_capture(url, platform, index, content, screenshots_list, disco, amb) ==
    IF ~amb.navega
    THEN [ret |-> FALSE, lista |-> screenshots_list, disco |-> disco, salvo |-> FALSE, tamanho |-> 0]
    ELSE salvar_e_verificar(nome_normal(index), "full_page", url, platform,
                            content, screenshots_list, disco, amb)

\* a loop test that lets one capture more through
limite_atingido_estrito(lista, maximo) == Len(lista) > maximo

\* `if len(screenshots) >= max_captures: break`
limite_atingido(lista, maximo) == Len(lista) >= maximo

\* the statements of the loop body before the capture attempts: url,
\* platform, title, the test of the url and the log line with title[:50].
\* Ok(platform) to go on to the attempts, Ok(PyNone) for `continue`.
preparar_candidato(content, i) ==
    Bind(PyGet(content, K("url"), PyStr(<<>>)), LAMBDA url :
    Bind(PyGet(content, K("platform"), PyStr(<<"web">>)), LAMBDA bruta :
    Bind(PyLower(bruta), LAMBDA platform :
    Bind(PyGet(content, K("title"), PyStr(<<"Conteudo Viral", ToString(i)>>)), LAMBDA title :
        IF ~PyTruthy(url) THEN Ok(PyNone)
        ELSE Bind(PySlice(title, 50), LAMBDA corte : Ok(platform))))))

\* 'facebook' in platform or 'instagram' in platform
plataforma_expansivel(platform) ==
    PyIn(K("facebook"), platform).v \/ PyIn(K("instagram"), platform).v

\* a handler that lets a failure of the driver start through
capture_captura_import(exc) == exc = "ImportError"

\* `except ImportError` and `except Exception` of _capture_viral_screenshots
capture_captura(exc) == TRUE

(***************************************************************************)
(* ViralContentAnalyzer.analyze_viral_content                              *)
(***************************************************************************)
\* a loader that lets the failure of open or json.load through
carregar_captura_nenhuma(exc) == FALSE

\* `except Exception` around open and json.load
carregar_captura(exc) == TRUE

\* social_results_data after the loading step
carregar_pesquisa(arquivo) ==
    IF arquivo.estado = "ausente" THEN Ok(EmptyDict)
    ELSE IF arquivo.estado = "ilegivel"
         THEN IF carregar_captura(arquivo.erro) THEN Ok(EmptyDict) ELSE Err(arquivo.erro)
    ELSE Ok(arquivo.conteudo)

\* a result that counts the candidates before the ranking
analysis_result_semRanking(combinados, identificados, capturados) ==
    [viral_content_identified |-> identificados,
     screenshots_captured     |-> capturados,
     summary |-> [total_social_items_analyzed |-> Len(combinados),
                  viral_content_found         |-> Len(combinados),
                  screenshots_taken           |-> Len(capturados)]]

\* analysis_result (session_id, search_query and the timestamp are left out)
analysis_result(combinados, identificados, capturados) ==
    [viral_content_identified |-> identificados,
     screenshots_captured     |-> capturados,
     summary |-> [total_social_items_analyzed |-> Len(combinados),
                  viral_content_found         |-> Len(identificados),
                  screenshots_taken           |-> Len(capturados)]]

\* an error record that does not carry the exception
error_result_semMensagem(e) ==
    [viral_content_identified |-> <<>>,
     screenshots_captured     |-> <<>>,
     summary |-> [total_social_items_analyzed |-> 0,
                  viral_content_found         |-> 0,
                  screenshots_taken           |-> 0,
                  critical_error              |-> "none"],
     error         |-> TRUE,
     error_message |-> "none"]

\* error_result
error_result(e) ==
    [viral_content_identified |-> <<>>,
     screenshots_captured     |-> <<>>,
     summary |-> [total_social_items_analyzed |-> 0,
                  viral_content_found         |-> 0,
                  screenshots_taken           |-> 0,
                  critical_error              |-> e],
     error         |-> TRUE,
     error_message |-> e]

\* `with open(path, 'w') as f: json.dump(payload, f)` inside try/except: the
\* file afterwards, when open fails, when the dump fails after open, and
\* when both succeed
Parcial == [parcial |-> TRUE]
gravar_json(antes, payload, desfecho) ==
    CASE desfecho = "open_falha" -> antes
      [] desfecho = "dump_falha" -> Parcial
      [] desfecho = "ok"         -> payload
Desfechos == {"ok", "open_falha", "dump_falha"}

(***************************************************************************)
(* Arguments the two pure functions are applied to                         *)
(***************************************************************************)
MaxItens == 6
MaxGarantias == 2

Texto == PyStr(<<"texto">>)
Itens(n) == PyList([i \in 1..n |-> PyInt(i)])
Nomes(seq) == PyList([i \in 1..Len(seq) |-> PyStr(seq[i])])
Range(seq) == {seq[i] : i \in 1..Len(seq)}
RECURSIVE Juntar(_)
Juntar(seq) == IF seq = <<>> THEN <<>> ELSE Head(seq) \o Juntar(Tail(seq))

\* a dict holding `chaves`, every one with the value `valor`
DictDe(chaves, valor) == PyDict([k \in chaves |-> valor])
Com(dict, chave, valor) == PyDict((chave :> valor) @@ dict.d)

\* stack_valor with n bonus_ keys and two keys that do not begin with bonus_
StackValor(n) ==
    PyDict([k \in {<<"bonus_", "b">> \o [i \in 1..j |-> "b"] : j \in 1..n}
                   \cup {<<"valor_total">>, <<"super_", "bonus_">>} |-> Texto])

Evento == PyDict(K("nome_evento") :> PyStr(<<"Evento">>))
Arquitetura(versoes) == PyDict((K("estrategia") :> Texto) @@ (K("versoes_evento") :> versoes))

Fases(f1, teasers, casos, passos, stack, garantias) ==
    PyDict((K("fase_1_arquitetura") :> f1)
        @@ (K("fase_2_cpl1") :> PyDict(K("teasers") :> teasers))
        @@ (K("fase_3_cpl2") :> PyDict(K("casos_sucesso_detalhados") :> casos))
        @@ (K("fase_4_cpl3") :> PyDict(K("estrutura_passo_passo") :> passos))
        @@ (K("fase_5_cpl4") :> PyDict((K("stack_valor") :> stack)
                                     @@ (K("garantias_agressivas") :> garantias))))

Modulo(fases) ==
    PyDict((K("titulo") :> Texto) @@ (K("descricao") :> Texto)
        @@ (K("fases") :> fases) @@ (K("consideracoes_finais") :> EmptyDict))

\* results of the shape the prompt asks for, with every count varied
ModulosBemFormados ==
    {Modulo(Fases(Arquitetura(PyList(<<Evento>>)), Itens(n2), Itens(n3), Itens(n4),
                  StackValor(nb), Itens(ng))) :
        n2 \in 0..MaxItens, n3 \in 0..MaxItens, n4 \in 0..MaxItens,
        nb \in 0..MaxItens, ng \in 0..MaxGarantias}

\* every subset of the top-level keys, with fases of every kind
ValoresDeFases ==
    {DictDe(ks, v) : ks \in SUBSET Range(fases_esperadas), v \in {EmptyDict, PyNone}}
    \cup {Nomes(fases_esperadas), Nomes(Tail(fases_esperadas)),
          PyStr(Juntar(fases_esperadas)), PyStr(<<"fase_1_arquitetura">>),
          PyNone, PyInt(5), EmptyList}

ModulosParciais ==
    {IF K("fases") \in ks THEN Com(DictDe(ks, Texto), K("fases"), f) ELSE DictDe(ks, Texto) :
        ks \in SUBSET Range(campos_obrigatorios), f \in ValoresDeFases}

\* values that are not of the expected type, at the top and inside the phases
ValoresEstranhos ==
    {PyNone, PyInt(0), PyInt(3), Texto, EmptyList, EmptyDict, Itens(2),
     PyList(<<Evento>>), PyDict(K("a") :> PyInt(1)), Nomes(<<K("versoes_evento")>>)}

ModulosMalFormados ==
    {PyNone, PyInt(3), Nomes(campos_obrigatorios), PyStr(Juntar(campos_obrigatorios)), EmptyList}
    \cup {Modulo(Fases(f1, Itens(1), Itens(1), Itens(1), StackValor(1), Itens(1))) :
            f1 \in ValoresEstranhos \cup {Arquitetura(v) : v \in ValoresEstranhos}}
    \cup {Modulo(Fases(Arquitetura(EmptyList), x, Itens(1), Itens(1), StackValor(1), Itens(1))) :
            x \in ValoresEstranhos}
    \cup {Modulo(Fases(Arquitetura(EmptyList), Itens(1), Itens(1), Itens(1), x, y)) :
            x \in ValoresEstranhos, y \in ValoresEstranhos}
    \cup {Modulo(Com(Fases(Arquitetura(EmptyList), Itens(1), Itens(1), Itens(1), StackValor(1), Itens(1)),
                     f, x)) :
            f \in Range(fases_esperadas), x \in ValoresEstranhos}

Entradas == ModulosBemFormados \cup ModulosParciais \cup ModulosMalFormados

(***************************************************************************)
(* Arguments of executar_fluxo_completo_cpl and behaviours of the AI        *)
(* backend                                                                 *)
(***************************************************************************)
Chaves(n) == {<<"k">> \o [i \in 1..j |-> "k"] : j \in 1..n}

EntradasFluxo ==
    [sintese_master : {EmptyDict, PyDict(K("a") :> PyInt(1))},
     avatar_data : {EmptyDict, PyDict(K("criado_em") :> PyObj)},
     contexto_estrategico : {PyNone, EmptyDict,
                             PyDict(K("termos_chave") :> Itens(MaxTermos + 2)),
                             PyDict(K("objecoes") :> PyInt(3)),
                             Itens(2)},
     dados_web : {PyNone, DictDe(Chaves(2), Texto), DictDe(Chaves(MaxDadosWeb + 1), Texto), Itens(1)}]

\* 3 teasers, 2 detailed cases, 4 steps and 3 bonus keys
ModuloExemplo ==
    Modulo(Fases(Arquitetura(PyList(<<Evento>>)), Itens(3), Itens(2), Itens(4), StackValor(3), Itens(2)))

Documentos ==
    {ModuloExemplo, Com(ModuloExemplo, K("extra"), Texto),
     Modulo(EmptyDict), Modulo(Nomes(fases_esperadas)), Modulo(PyInt(5)),
     DictDe({K("titulo"), K("fases")}, EmptyDict), EmptyDict,
     EmptyList, Itens(2), PyInt(3), Texto, PyNone}

RespostasIA == {IARaise, IASemTexto, IATextoInvalido} \cup {IAJson(doc) : doc \in Documentos}

EtapasIniciais ==
    {[tag \in Tags |-> Ausente],
     [tag \in Tags |-> IF tag = "cpl_completo" THEN fallback_cpl ELSE Ausente]}

PuroParado ==
    /\ modulo_arg = Pending
    /\ validacao_ret = Pending
    /\ sumario_ret = Pending

GerarParado ==
    /\ gen_pc = "parado"
    /\ conteudo_modulo = Pending
    /\ gen_exc = "none"
    /\ gen_via = "none"
    /\ gen_ret = Pending

FluxoParado ==
    /\ entrada = Pending
    /\ etapas = [tag \in Tags |-> Ausente]
    /\ flow_pc = "parado"
    /\ estrutura_valida = Pending
    /\ sumario = Pending
    /\ resultado_final = Pending
    /\ flow_exc = "none"
    /\ flow_ret = Pending

\* analyze_viral_content is not called
AnaliseParada ==
    /\ max_captures = 0
    /\ pesquisa = [estado |-> "ausente"]
    /\ dir_sessao_ok = TRUE
    /\ dir_files_ok = TRUE
    /\ selenium = "ok"
    /\ an_pc = "parado"
    /\ an_exc = "none"
    /\ an_ret = Pending
    /\ resumo_json = Ausente
    /\ erro_json = Ausente
    /\ cap_pc = "parado"
    /\ driver = "nenhum"
    /\ cap_i = 0
    /\ expanded_success = FALSE
    /\ screenshots = <<>>
    /\ arquivos = {}
    /\ tentativas = <<>>

(***************************************************************************)
(* Specification of the ranking step of analyze_viral_content: the two     *)
(* lists of the research file are merged and ranked.                       *)
(***************************************************************************)
MaxCandidatos == 4

Url(a) == PyStr(<<"https://", a>>)
Candidato(url, titulo, campos) ==
    PyDict((K("url") :> url) @@ (K("title") :> PyStr(<<titulo>>)) @@ campos)

Candidatos ==
    {Candidato(Url("A"), "a", K("viral_score") :> PyInt(5)),
     Candidato(Url("B"), "b", (K("viral_score") :> PyStr(<<"b", "a", "d">>))
                              @@ (K("engagement_rate") :> PyInt(7))),
     Candidato(Url("C"), "c", K("viral_score") :> PyNone),
     Candidato(Url("D"), "d", K("viral_score") :> PyInt(9)),
     Candidato(Url("D"), "e", K("viral_score") :> PyStr(<<"9">>)),
     Candidato(Url("A"), "f", K("engagement_rate") :> PyInt(7)),
     PyDict((K("title") :> PyStr(<<"g">>)) @@ (K("viral_score") :> PyStr(<<"1", "2">>)))}

SeqAte(S, n) == UNION {[1..k -> S] : k \in 0..n}

RankParado ==
    /\ social_results = <<>>
    /\ youtube_results = <<>>
    /\ rank_pc = "parado"
    /\ combined_social_results = <<>>
    /\ viral_idx = <<>>
    /\ viral_content_identified = <<>>
    /\ rank_exc = "none"

InitRank ==
    /\ PuroParado
    /\ GerarParado
    /\ AnaliseParada
    /\ FluxoParado
    /\ social_results \in SeqAte(Candidatos, MaxCandidatos)
    /\ youtube_results \in SeqAte(Candidatos, MaxCandidatos - Len(social_results))
    /\ rank_pc = "carregado"
    /\ combined_social_results = <<>>
    /\ viral_idx = <<>>
    /\ viral_content_identified = <<>>
    /\ rank_exc = "none"

\* combined_social_results = all_social_results + youtube_results
Rank_Combinar ==
    /\ rank_pc = "carregado"
    /\ combined_social_results' = social_results \o youtube_results
    /\ rank_pc' = "combinado"
    /\ UNCHANGED <<pure_vars, gen_vars, flow_vars, an_vars, cap_vars, social_results, youtube_results, viral_idx,
                   viral_content_identified, rank_exc>>

\* viral_content_identified = self._identify_viral_content(combined_social_results)
Rank_Identificar ==
    /\ rank_pc = "combinado"
    /\ LET r == identify_viral_content(combined_social_results)
       IN  IF r.ok
           THEN /\ viral_idx' = r.v
                /\ viral_content_identified' = [p \in 1..Len(r.v) |-> combined_social_results[r.v[p]]]
                /\ rank_pc' = "identificado"
                /\ UNCHANGED rank_exc
           ELSE /\ rank_pc' = "raised"
                /\ rank_exc' = r.exc
                /\ UNCHANGED <<viral_idx, viral_content_identified>>
    /\ UNCHANGED <<pure_vars, gen_vars, flow_vars, an_vars, cap_vars, social_results, youtube_results,
                   combined_social_results>>

NextRank == Rank_Combinar \/ Rank_Identificar

SpecRank == InitRank /\ [][NextRank]_vars

(***************************************************************************)
(* Specification of the ranking step on long research lists: more          *)
(* candidates than the limit of _identify_viral_content.                   *)
(***************************************************************************)
MaxMuitos == 25

Variantes == {"unicos", "pares", "sem_url"}
Padroes == {"crescente", "constante", "ciclo"}

\* the url of the i-th candidate of a long list: all different, each one
\* twice, or every third one empty
UrlLonga(i, variante) ==
    CASE variante = "unicos"  -> PyStr(<<"https://", ToString(i)>>)
      [] variante = "pares"   -> PyStr(<<"https://", ToString((i + 1) \div 2)>>)
      [] variante = "sem_url" -> IF i % 3 = 0 THEN PyStr(<<>>)
                                 ELSE PyStr(<<"https://", ToString(i)>>)

PontuacaoLonga(i, padrao) ==
    CASE padrao = "crescente" -> PyInt(i)
      [] padrao = "constante" -> PyInt(5)
      [] padrao = "ciclo"     -> PyInt(i % 3)

ListaLonga(n, variante, padrao) ==
    [i \in 1..n |-> Candidato(UrlLonga(i, variante), "t",
                              K("viral_score") :> PontuacaoLonga(i, padrao))]

InitTop ==
    /\ PuroParado
    /\ GerarParado
    /\ AnaliseParada
    /\ FluxoParado
    /\ \E n \in 0..MaxMuitos, variante \in Variantes, padrao \in Padroes, corte \in {0, 1, 2} :
          LET lista == ListaLonga(n, variante, padrao)
              k == (n * corte) \div 2
          IN  /\ social_results = SubSeq(lista, 1, k)
              /\ youtube_results = SubSeq(lista, k + 1, n)
    /\ rank_pc = "carregado"
    /\ combined_social_results = <<>>
    /\ viral_idx = <<>>
    /\ viral_content_identified = <<>>
    /\ rank_exc = "none"

SpecTop == InitTop /\ [][NextRank]_vars

(***************************************************************************)
(* Specification of analyze_viral_content: loading, ranking, the capture   *)
(* loop of _capture_viral_screenshots, the summary and the error handler.  *)
(***************************************************************************)
MaxCapturas == 2

\* candidates of the research file: a Facebook post, an Instagram post, a
\* page without platform, a page whose title is null, a page whose platform
\* is null, and an element that is not an object
cFacebook ==
    Candidato(Url("F"), "f", (K("platform") :> PyStr(<<"Facebook">>))
                             @@ (K("viral_score") :> PyInt(9)))
cInstagram ==
    Candidato(Url("I"), "i", (K("platform") :> PyStr(<<"m.", "INSTAGRAM">>))
                             @@ (K("viral_score") :> PyInt(7)))
cPagina == Candidato(Url("W"), "w", K("viral_score") :> PyInt(5))
cSemTitulo ==
    PyDict((K("url") :> Url("N")) @@ (K("title") :> PyNone)
           @@ (K("platform") :> PyStr(<<"web">>)) @@ (K("viral_score") :> PyInt(8)))
cSemPlataforma ==
    Candidato(Url("P"), "p", (K("platform") :> PyNone) @@ (K("viral_score") :> PyInt(6)))

Documento(sociais, youtube) ==
    [estado |-> "json",
     conteudo |-> PyDict((K("social_results") :> PyList(sociais))
                         @@ (K("youtube_results") :> PyList(youtube)))]

Pesquisas ==
    {[estado |-> "ausente"],
     [estado |-> "ilegivel", erro |-> "PermissionError"],
     [estado |-> "ilegivel", erro |-> "JSONDecodeError"],
     [estado |-> "json", conteudo |-> EmptyDict],
     [estado |-> "json", conteudo |-> EmptyList],
     Documento(<<cPagina, PyInt(3)>>, <<>>),
     Documento(<<cPagina>>, <<cFacebook>>),
     Documento(<<cInstagram, cFacebook>>, <<cPagina>>),
     Documento(<<cSemTitulo, cPagina>>, <<>>),
     Documento(<<cFacebook>>, <<cSemPlataforma, cInstagram>>)}

\* a research file with more candidates than the limit of the ranking
PesquisaLonga == Documento(ListaLonga(MaxMuitos, "unicos", "crescente"), <<>>)

Tamanhos == {0, 1024, 1025}

\* what the browser does in one capture attempt
Ambientes ==
    [navega  : BOOLEAN,
     casam   : {{}, {expand_selectors_instagram[2], expand_selectors_facebook[4]},
                {expand_selectors_instagram[1], expand_selectors_instagram[5],
                 expand_selectors_facebook[1]}},
     salva   : BOOLEAN,
     tamanho : Tamanhos]

InitAnalise ==
    /\ PuroParado
    /\ GerarParado
    /\ FluxoParado
    /\ RankParado
    /\ max_captures \in 0..MaxCapturas
    /\ pesquisa \in Pesquisas \cup {PesquisaLonga}
    /\ dir_sessao_ok \in BOOLEAN
    /\ dir_files_ok \in BOOLEAN
    /\ selenium \in {"ok", "import_error", "driver_error"}
    /\ pesquisa = PesquisaLonga => (selenium # "ok" \/ max_captures = 0)
    /\ an_pc = "inicio"
    /\ an_exc = "none"
    /\ an_ret = Pending
    /\ resumo_json = Ausente
    /\ erro_json = Ausente
    /\ cap_pc = "parado"
    /\ driver = "nenhum"
    /\ cap_i = 0
    /\ expanded_success = FALSE
    /\ screenshots = <<>>
    /\ arquivos = {}
    /\ tentativas = <<>>

an_env == <<max_captures, pesquisa, dir_sessao_ok, dir_files_ok, selenium>>

\* os.makedirs(session_dir, exist_ok=True), first statement of the try
An_GarantirDir ==
    /\ an_pc = "inicio"
    /\ IF dir_sessao_ok
       THEN an_pc' = "dir" /\ UNCHANGED an_exc
       ELSE an_pc' = "except" /\ an_exc' = "OSError"
    /\ UNCHANGED <<pure_vars, gen_vars, flow_vars, rank_vars, cap_vars, an_env, an_ret,
                   resumo_json, erro_json>>

\* loading of the research file and the two .get of its lists
An_Carregar ==
    /\ an_pc = "dir"
    /\ LET r == Bind(carregar_pesquisa(pesquisa), LAMBDA dados :
                Bind(PyGet(dados, K("social_results"), EmptyList), LAMBDA sociais :
                Bind(PyGet(dados, K("youtube_results"), EmptyList), LAMBDA youtube :
                    Ok(<<sociais.l, youtube.l>>))))
       IN  IF r.ok
           THEN /\ social_results' = r.v[1]
                /\ youtube_results' = r.v[2]
                /\ rank_pc' = "carregado"
                /\ an_pc' = "ranking"
                /\ UNCHANGED an_exc
           ELSE /\ an_pc' = "except"
                /\ an_exc' = r.exc
                /\ UNCHANGED <<social_results, youtube_results, rank_pc>>
    /\ UNCHANGED <<pure_vars, gen_vars, flow_vars, cap_vars, an_env, an_ret, resumo_json, erro_json,
                   combined_social_results, viral_idx, viral_content_identified, rank_exc>>

\* _capture_viral_screenshots up to the creation of the browser session
Cap_Entrar ==
    /\ an_pc = "ranking"
    /\ rank_pc = "identificado"
    /\ cap_pc = "parado"
    /\ screenshots' = <<>>
    /\ IF Len(viral_content_identified) = 0
       THEN cap_pc' = "retornou" /\ UNCHANGED <<driver, an_pc, an_exc>>
       ELSE IF selenium = "ok"
       THEN cap_pc' = "criado" /\ driver' = "ativo" /\ UNCHANGED <<an_pc, an_exc>>
       ELSE LET exc == IF selenium = "import_error" THEN "ImportError" ELSE "WebDriverException"
            IN  IF capture_captura(exc)
                THEN cap_pc' = "retornou" /\ UNCHANGED <<driver, an_pc, an_exc>>
                ELSE cap_pc' = "raised" /\ an_pc' = "except" /\ an_exc' = exc /\ UNCHANGED driver
    /\ UNCHANGED <<pure_vars, gen_vars, flow_vars, rank_vars, an_env, an_ret, resumo_json, erro_json,
                   cap_i, expanded_success, arquivos, tentativas>>

\* os.makedirs(screenshots_dir, exist_ok=True), between the creation of the
\* session and the try whose finally quits it
Cap_CriarDir ==
    /\ cap_pc = "criado"
    /\ IF dir_files_ok
       THEN cap_pc' = "laco" /\ cap_i' = 1 /\ UNCHANGED <<an_pc, an_exc>>
       ELSE IF capture_captura("OSError")
       THEN cap_pc' = "retornou" /\ UNCHANGED <<cap_i, an_pc, an_exc>>
       ELSE cap_pc' = "raised" /\ an_pc' = "except" /\ an_exc' = "OSError" /\ UNCHANGED cap_i
    /\ UNCHANGED <<pure_vars, gen_vars, flow_vars, rank_vars, an_env, an_ret, resumo_json, erro_json,
                   driver, expanded_success, screenshots, arquivos, tentativas>>

\* top of the loop body: end of the list, the limit test, and the
\* statements before the capture attempts
Cap_Topo ==
    /\ cap_pc = "laco"
    /\ IF cap_i > Len(viral_content_identified)
       THEN cap_pc' = "finally" /\ UNCHANGED <<cap_i, expanded_success>>
       ELSE IF limite_atingido(screenshots, max_captures)
       THEN cap_pc' = "finally" /\ UNCHANGED <<cap_i, expanded_success>>
       ELSE LET r == preparar_candidato(viral_content_identified[cap_i], cap_i)
            IN  IF ~r.ok \/ r.v = PyNone
                THEN cap_pc' = "laco" /\ cap_i' = cap_i + 1 /\ UNCHANGED expanded_success
                ELSE /\ expanded_success' = FALSE
                     /\ cap_pc' = IF plataforma_expansivel(r.v) THEN "expandida" ELSE "normal"
                     /\ UNCHANGED cap_i
    /\ UNCHANGED <<pure_vars, gen_vars, flow_vars, rank_vars, an_vars, driver, screenshots,
                   arquivos, tentativas>>

\* expanded_success = await self._attempt_expanded_view_capture(...)
Cap_Expandida ==
    /\ cap_pc = "expandida"
    /\ \E amb \in Ambientes :
         LET content == viral_content_identified[cap_i]
             r == attempt_expanded_view_capture(
                      PyGet(content, K("url"), PyStr(<<>>)).v,
                      preparar_candidato(content, cap_i).v,
                      cap_i, content, screenshots, arquivos, amb)
         IN  /\ expanded_success' = r.ret
             /\ screenshots' = r.lista
             /\ arquivos' = r.disco
             /\ tentativas' = Append(tentativas, [i |-> cap_i, metodo |-> "expanded_view",
                                                  clicked |-> r.clicked, tentados |-> r.tentados,
                                                  salvo |-> r.salvo, tamanho |-> r.tamanho,
                                                  ret |-> r.ret])
             /\ IF r.ret
                THEN cap_pc' = "laco" /\ cap_i' = cap_i + 1
                ELSE cap_pc' = "normal" /\ UNCHANGED cap_i
    /\ UNCHANGED <<pure_vars, gen_vars, flow_vars, rank_vars, an_vars, driver>>

\* success = await self._attempt_normal_page_capture(...)
Cap_Normal ==
    /\ cap_pc = "normal"
    /\ \E amb \in Ambientes :
         LET content == viral_content_identified[cap_i]
             r == attempt_normal_page_capture(
                      PyGet(content, K("url"), PyStr(<<>>)).v,
                      preparar_candidato(content, cap_i).v,
                      cap_i, content, screenshots, arquivos, amb)
         IN  /\ screenshots' = r.lista
             /\ arquivos' = r.disco
             /\ tentativas' = Append(tentativas, [i |-> cap_i, metodo |-> "full_page",
                                                  clicked |-> FALSE, tentados |-> 0,
                                                  salvo |-> r.salvo, tamanho |-> r.tamanho,
                                                  ret |-> r.ret])
    /\ cap_pc' = "laco"
    /\ cap_i' = cap_i + 1
    /\ UNCHANGED <<pure_vars, gen_vars, flow_vars, rank_vars, an_vars, driver, expanded_success>>

\* finally: driver.quit()
Cap_Finally ==
    /\ cap_pc = "finally"
    /\ driver' = "encerrado"
    /\ cap_pc' = "retornou"
    /\ UNCHANGED <<pure_vars, gen_vars, flow_vars, rank_vars, an_vars, cap_i, expanded_success,
                   screenshots, arquivos, tentativas>>

\* analysis_result, the write of analise_viral_resumo.json and the return
An_Compilar ==
    /\ an_pc = "ranking"
    /\ cap_pc = "retornou"
    /\ LET resultado == analysis_result(combined_social_results, viral_content_identified,
                                        screenshots)
       IN  /\ \E desfecho \in Desfechos : resumo_json' = gravar_json(resumo_json, resultado, desfecho)
           /\ an_ret' = resultado
    /\ an_pc' = "retornou"
    /\ UNCHANGED <<pure_vars, gen_vars, flow_vars, rank_vars, cap_vars, an_env, an_exc, erro_json>>

\* except Exception as e: error_result, os.makedirs, the write of
\* analise_viral_erro.json and the raise
An_Except ==
    /\ \/ an_pc = "except"
       \/ an_pc = "ranking" /\ rank_pc = "raised"
    /\ LET e == IF an_pc = "except" THEN an_exc ELSE rank_exc
       IN  IF dir_sessao_ok
           THEN /\ \E desfecho \in Desfechos :
                      erro_json' = gravar_json(erro_json, error_result(e), desfecho)
                /\ an_exc' = e
           ELSE /\ an_exc' = "OSError"
                /\ UNCHANGED erro_json
    /\ an_pc' = "raised"
    /\ UNCHANGED <<pure_vars, gen_vars, flow_vars, rank_vars, cap_vars, an_env, an_ret, resumo_json>>

NextAnalise ==
    \/ An_GarantirDir
    \/ An_Carregar
    \/ Rank_Combinar
    \/ Rank_Identificar
    \/ Cap_Entrar
    \/ Cap_CriarDir
    \/ Cap_Topo
    \/ Cap_Expandida
    \/ Cap_Normal
    \/ Cap_Finally
    \/ An_Compilar
    \/ An_Except

SpecAnalise == InitAnalise /\ [][NextAnalise]_vars

(***************************************************************************)
(* Specification of the pure functions: any argument, then each function   *)
(* applied to it.                                                          *)
(***************************************************************************)
InitPuro ==
    /\ modulo_arg \in Entradas
    /\ validacao_ret = Pending
    /\ sumario_ret = Pending
    /\ GerarParado
    /\ AnaliseParada
    /\ FluxoParado
    /\ RankParado

Validar ==
    /\ validacao_ret = Pending
    /\ validacao_ret' = validar_estrutura_cpl(modulo_arg)
    /\ UNCHANGED <<modulo_arg, sumario_ret, gen_vars, flow_vars, rank_vars, an_vars, cap_vars>>

Sumarizar ==
    /\ sumario_ret = Pending
    /\ sumario_ret' = gerar_sumario_executivo(modulo_arg)
    /\ UNCHANGED <<modulo_arg, validacao_ret, gen_vars, flow_vars, rank_vars, an_vars, cap_vars>>

NextPuro == Validar \/ Sumarizar

SpecPuro == InitPuro /\ [][NextPuro]_vars

(***************************************************************************)
(* Specification of executar_fluxo_completo_cpl, which runs                *)
(* generate_cpl_module, the two functions above and salvar_etapa.  Every   *)
(* salvar_etapa call either stores its payload or raises.                  *)
(***************************************************************************)
InitFluxo ==
    /\ PuroParado
    /\ GerarParado
    /\ AnaliseParada
    /\ RankParado
    /\ entrada \in EntradasFluxo
    /\ etapas \in EtapasIniciais
    /\ flow_pc = "inicio"
    /\ estrutura_valida = Pending
    /\ sumario = Pending
    /\ resultado_final = Pending
    /\ flow_exc = "none"
    /\ flow_ret = Pending

\* await generate_cpl_module(...)
Fluxo_Iniciar ==
    /\ flow_pc = "inicio"
    /\ flow_pc' = "gerando"
    /\ gen_pc' = "contexto"
    /\ UNCHANGED <<pure_vars, rank_vars, an_vars, cap_vars, conteudo_modulo, gen_exc, gen_via, gen_ret, entrada, etapas,
                   estrutura_valida, sumario, resultado_final, flow_exc, flow_ret>>

\* contexto_para_ia = {...} and the prompt built from it
Gerar_Contexto ==
    /\ gen_pc = "contexto"
    /\ LET r == contexto_para_ia(entrada)
       IN  IF r.ok
           THEN gen_pc' = "ia" /\ UNCHANGED gen_exc
           ELSE gen_pc' = "except" /\ gen_exc' = r.exc
    /\ UNCHANGED <<pure_vars, rank_vars, an_vars, cap_vars, conteudo_modulo, gen_via, gen_ret, flow_vars>>

\* conteudo_modulo = await enhanced_ai_manager.generate_with_active_search(...)
Gerar_ChamarIA ==
    /\ gen_pc = "ia"
    /\ \E resposta \in RespostasIA :
          IF resposta = IARaise
          THEN gen_pc' = "except" /\ gen_exc' = "AIError" /\ UNCHANGED conteudo_modulo
          ELSE gen_pc' = "parse" /\ conteudo_modulo' = resposta /\ UNCHANGED gen_exc
    /\ UNCHANGED <<pure_vars, rank_vars, an_vars, cap_vars, gen_via, gen_ret, flow_vars>>

\* modulo_cpl = json.loads(conteudo_modulo)
Gerar_Parse ==
    /\ gen_pc = "parse"
    /\ LET r == json_loads(conteudo_modulo)
       IN  IF r.ok THEN gen_pc' = "salvar_completo" /\ UNCHANGED gen_exc
           ELSE IF r.exc = "JSONDecodeError" THEN gen_pc' = "salvar_fallback" /\ UNCHANGED gen_exc
           ELSE gen_pc' = "except" /\ gen_exc' = r.exc
    /\ UNCHANGED <<pure_vars, rank_vars, an_vars, cap_vars, conteudo_modulo, gen_via, gen_ret, flow_vars>>

\* salvar_etapa("cpl_completo", modulo_cpl, ...); return modulo_cpl
Gerar_SalvarCompleto ==
    /\ gen_pc = "salvar_completo"
    /\ \E salvou \in BOOLEAN :
          IF salvou
          THEN /\ etapas' = salvar_etapa(etapas, "cpl_completo", json_loads(conteudo_modulo).v)
               /\ gen_ret' = json_loads(conteudo_modulo).v
               /\ gen_via' = "success"
               /\ gen_pc' = "returned"
               /\ UNCHANGED gen_exc
          ELSE /\ gen_pc' = "except"
               /\ gen_exc' = "IOError"
               /\ UNCHANGED <<etapas, gen_ret, gen_via>>
    /\ UNCHANGED <<pure_vars, rank_vars, an_vars, cap_vars, conteudo_modulo, entrada, flow_pc, estrutura_valida, sumario,
                   resultado_final, flow_exc, flow_ret>>

\* except json.JSONDecodeError: salvar_etapa("cpl_completo", fallback_cpl, ...); return fallback_cpl
Gerar_SalvarFallback ==
    /\ gen_pc = "salvar_fallback"
    /\ \E salvou \in BOOLEAN :
          IF salvou
          THEN /\ etapas' = salvar_etapa(etapas, "cpl_completo", fallback_cpl)
               /\ gen_ret' = fallback_cpl
               /\ gen_via' = "fallback"
               /\ gen_pc' = "returned"
               /\ UNCHANGED gen_exc
          ELSE /\ gen_pc' = "except"
               /\ gen_exc' = "IOError"
               /\ UNCHANGED <<etapas, gen_ret, gen_via>>
    /\ UNCHANGED <<pure_vars, rank_vars, an_vars, cap_vars, conteudo_modulo, entrada, flow_pc, estrutura_valida, sumario,
                   resultado_final, flow_exc, flow_ret>>

\* except Exception as e: salvar_etapa("cpl_erro", {"erro": str(e)}, ...); return erro_cpl
Gerar_Except ==
    /\ gen_pc = "except"
    /\ IF ~gerar_captura(gen_exc)
       THEN gen_pc' = "raised" /\ UNCHANGED <<etapas, gen_ret, gen_via, gen_exc>>
       ELSE \E salvou \in BOOLEAN :
               IF salvou
               THEN /\ etapas' = salvar_etapa(etapas, "cpl_erro", erro_payload(gen_exc))
                    /\ gen_ret' = erro_cpl(gen_exc)
                    /\ gen_via' = "erro"
                    /\ gen_pc' = "returned"
                    /\ UNCHANGED gen_exc
               ELSE /\ gen_pc' = "raised"
                    /\ gen_exc' = "IOError"
                    /\ UNCHANGED <<etapas, gen_ret, gen_via>>
    /\ UNCHANGED <<pure_vars, rank_vars, an_vars, cap_vars, conteudo_modulo, entrada, flow_pc, estrutura_valida, sumario,
                   resultado_final, flow_exc, flow_ret>>

\* generate_cpl_module raised into the try block of executar_fluxo_completo_cpl
Fluxo_GerarLevantou ==
    /\ flow_pc = "gerando"
    /\ gen_pc = "raised"
    /\ flow_pc' = "except"
    /\ flow_exc' = gen_exc
    /\ UNCHANGED <<pure_vars, rank_vars, an_vars, cap_vars, gen_vars, entrada, etapas, estrutura_valida, sumario,
                   resultado_final, flow_ret>>

\* estrutura_valida = validar_estrutura_cpl(modulo_cpl)
Fluxo_Validar ==
    /\ flow_pc = "gerando"
    /\ gen_pc = "returned"
    /\ LET r == validar_estrutura_cpl(gen_ret)
       IN  IF r.raised
           THEN flow_pc' = "except" /\ flow_exc' = r.exc /\ UNCHANGED estrutura_valida
           ELSE flow_pc' = "sumario" /\ estrutura_valida' = r.v /\ UNCHANGED flow_exc
    /\ UNCHANGED <<pure_vars, rank_vars, an_vars, cap_vars, gen_vars, entrada, etapas, sumario, resultado_final, flow_ret>>

\* sumario = gerar_sumario_executivo(modulo_cpl)
Fluxo_Sumario ==
    /\ flow_pc = "sumario"
    /\ LET r == gerar_sumario_executivo(gen_ret)
       IN  IF r.raised
           THEN flow_pc' = "except" /\ flow_exc' = r.exc /\ UNCHANGED sumario
           ELSE flow_pc' = "compilar" /\ sumario' = r.v /\ UNCHANGED flow_exc
    /\ UNCHANGED <<pure_vars, rank_vars, an_vars, cap_vars, gen_vars, entrada, etapas, estrutura_valida, resultado_final, flow_ret>>

\* resultado_final = {...}
Fluxo_Compilar ==
    /\ flow_pc = "compilar"
    /\ LET n == total_fases_geradas(gen_ret)
       IN  IF n.ok
           THEN /\ resultado_final' = compilar_resultado(gen_ret, estrutura_valida, sumario, n.v, entrada)
                /\ flow_pc' = "salvar"
                /\ UNCHANGED flow_exc
           ELSE /\ flow_pc' = "except"
                /\ flow_exc' = n.exc
                /\ UNCHANGED resultado_final
    /\ UNCHANGED <<pure_vars, rank_vars, an_vars, cap_vars, gen_vars, entrada, etapas, estrutura_valida, sumario, flow_ret>>

\* salvar_etapa("fluxo_cpl_completo", resultado_final, ...); return resultado_final
Fluxo_Salvar ==
    /\ flow_pc = "salvar"
    /\ \E salvou \in BOOLEAN :
          IF salvou
          THEN /\ etapas' = salvar_etapa(etapas, "fluxo_cpl_completo", resultado_final)
               /\ flow_ret' = resultado_final
               /\ flow_pc' = "returned"
               /\ UNCHANGED flow_exc
          ELSE /\ flow_pc' = "except"
               /\ flow_exc' = "IOError"
               /\ UNCHANGED <<etapas, flow_ret>>
    /\ UNCHANGED <<pure_vars, rank_vars, an_vars, cap_vars, gen_vars, entrada, estrutura_valida, sumario, resultado_final>>

\* except Exception as e: return {...}
Fluxo_Except ==
    /\ flow_pc = "except"
    /\ IF fluxo_captura(flow_exc)
       THEN flow_pc' = "returned" /\ flow_ret' = resultado_erro(flow_exc)
       ELSE flow_pc' = "raised" /\ UNCHANGED flow_ret
    /\ UNCHANGED <<pure_vars, rank_vars, an_vars, cap_vars, gen_vars, entrada, etapas, estrutura_valida, sumario,
                   resultado_final, flow_exc>>

NextFluxo ==
    \/ Fluxo_Iniciar
    \/ Gerar_Contexto
    \/ Gerar_ChamarIA
    \/ Gerar_Parse
    \/ Gerar_SalvarCompleto
    \/ Gerar_SalvarFallback
    \/ Gerar_Except
    \/ Fluxo_GerarLevantou
    \/ Fluxo_Validar
    \/ Fluxo_Sumario
    \/ Fluxo_Compilar
    \/ Fluxo_Salvar
    \/ Fluxo_Except

SpecFluxo == InitFluxo /\ [][NextFluxo]_vars

(***************************************************************************)
(* Properties of validar_estrutura_cpl and gerar_sumario_executivo         *)
(***************************************************************************)
\* c is a mapping that holds the key k
TemChave(c, k) == c.t = "dict" /\ k \in DOMAIN c.d

\* one of the four top-level keys, or one of the five phase keys, is absent
ChaveAusente(m) ==
    \/ \E k \in Range(campos_obrigatorios) : ~TemChave(m, k)
    \/ \E k \in Range(fases_esperadas) : ~TemChave(m.d[K("fases")], k)

\* C5: validar_estrutura_cpl returns false if and only if one of the four
\* top-level keys is absent from the result or one of the five phase keys is
\* absent from its fases, whatever the values stored under the keys.
C5_ValidarSseChaveAusente ==
    validacao_ret # Pending =>
        /\ ~validacao_ret.raised
        /\ (validacao_ret.v = FALSE) <=> ChaveAusente(modulo_arg)

BemFormado(m) ==
    /\ ~ChaveAusente(m)
    /\ LET f == m.d[K("fases")].d
       IN  /\ \A k \in Range(fases_esperadas) : f[k].t = "dict"
           /\ TemChave(f[K("fase_1_arquitetura")], K("versoes_evento"))
           /\ f[K("fase_1_arquitetura")].d[K("versoes_evento")].t = "list"
           /\ \A i \in 1..Len(f[K("fase_1_arquitetura")].d[K("versoes_evento")].l) :
                  f[K("fase_1_arquitetura")].d[K("versoes_evento")].l[i].t = "dict"
           /\ TemChave(f[K("fase_2_cpl1")], K("teasers"))
           /\ f[K("fase_2_cpl1")].d[K("teasers")].t = "list"
           /\ TemChave(f[K("fase_3_cpl2")], K("casos_sucesso_detalhados"))
           /\ f[K("fase_3_cpl2")].d[K("casos_sucesso_detalhados")].t = "list"
           /\ TemChave(f[K("fase_4_cpl3")], K("estrutura_passo_passo"))
           /\ f[K("fase_4_cpl3")].d[K("estrutura_passo_passo")].t = "list"
           /\ TemChave(f[K("fase_5_cpl4")], K("stack_valor"))
           /\ f[K("fase_5_cpl4")].d[K("stack_valor")].t = "dict"
           /\ TemChave(f[K("fase_5_cpl4")], K("garantias_agressivas"))

\* T of a well-formed result
TotalT(m) ==
    LET f == m.d[K("fases")].d
    IN  Len(f[K("fase_2_cpl1")].d[K("teasers")].l)
        + Len(f[K("fase_3_cpl2")].d[K("casos_sucesso_detalhados")].l)
        + Len(f[K("fase_4_cpl3")].d[K("estrutura_passo_passo")].l)
        + Cardinality({k \in DOMAIN f[K("fase_5_cpl4")].d[K("stack_valor")].d : k[1] = "bonus_"})

\* C7: for a well-formed result the label is Alto when T > 20, Baixo when
\* T < 10 and Medio when 10 <= T <= 20.
C7_NivelComplexidade ==
    (sumario_ret # Pending /\ BemFormado(modulo_arg)) =>
        /\ sumario_ret.exc = "none"
        /\ TotalT(modulo_arg) > 20 => sumario_ret.v.nivel_complexidade = "Alto"
        /\ TotalT(modulo_arg) < 10 => sumario_ret.v.nivel_complexidade = "Baixo"
        /\ (TotalT(modulo_arg) >= 10 /\ TotalT(modulo_arg) <= 20)
               => sumario_ret.v.nivel_complexidade = "Medio"

\* a well-formed result with T = 20, the largest total still labelled Medio
C7_Witness ==
    /\ sumario_ret # Pending
    /\ BemFormado(modulo_arg)
    /\ TotalT(modulo_arg) = 20
    /\ sumario_ret.v.nivel_complexidade = "Medio"

\* the guarantees list of phase 5, when the summary could be computed
GarantiasDe(m) == m.d[K("fases")].d[K("fase_5_cpl4")].d[K("garantias_agressivas")]

\* C8: the summary's garantias_oferecidas equals the length of
\* fase_5_cpl4.garantias_agressivas when that is a list, and 0 otherwise.
C8_GarantiasOferecidas ==
    (sumario_ret # Pending /\ BemFormado(modulo_arg)) =>
        sumario_ret.v.garantias_oferecidas =
            (IF GarantiasDe(modulo_arg).t = "list" THEN Len(GarantiasDe(modulo_arg).l) ELSE 0)

(***************************************************************************)
(* Properties of generate_cpl_module and executar_fluxo_completo_cpl       *)
(***************************************************************************)
\* C1: whatever the AI backend does, the value generate_cpl_module returns
\* is a mapping whose key set is exactly {titulo, descricao, fases,
\* consideracoes_finais}.
C1_GerarQuatroChaves ==
    gen_pc = "returned" =>
        /\ gen_ret.t = "dict"
        /\ DOMAIN gen_ret.d = Range(campos_obrigatorios)

\* C2: generate_cpl_module never raises to its caller, whichever step fails.
C2_GerarNuncaLevanta == gen_pc # "raised"

\* C3, as claimed: on every path the structure returned is the structure
\* persisted in the same call, under "cpl_completo" on success and on parse
\* failure and under "cpl_erro" on any other exception.
C3_RetornaOPersistido ==
    gen_pc = "returned" =>
        /\ gen_via \in {"success", "fallback"} => etapas["cpl_completo"] = gen_ret
        /\ gen_via = "erro" => etapas["cpl_erro"] = gen_ret

\* C3, amended: when generate_cpl_module returns the parsed result or the
\* fixed fallback, that structure is what it persisted under "cpl_completo";
\* when it returns the minimal error structure, what it persisted under
\* "cpl_erro" is the one-key record {erro: message}, not the returned one.
C3_RetornaOPersistidoEmendado ==
    gen_pc = "returned" =>
        /\ gen_via \in {"success", "fallback", "erro"}
        /\ gen_via = "success" =>
               (etapas["cpl_completo"] = gen_ret /\ gen_ret = conteudo_modulo.doc)
        /\ gen_via = "fallback" =>
               (etapas["cpl_completo"] = gen_ret /\ DOMAIN gen_ret.d[K("fases")].d = {}
                /\ DOMAIN gen_ret.d = Range(campos_obrigatorios))
        /\ gen_via = "erro" =>
               /\ etapas["cpl_erro"] = PyDict(K("erro") :> PyStr(<<gen_exc>>))
               /\ etapas["cpl_erro"] # gen_ret
               /\ DOMAIN gen_ret.d = Range(campos_obrigatorios)
               /\ DOMAIN gen_ret.d[K("fases")].d = {}

\* the save of the parsed result raised, the handler saved the error record
\* over it and returned the minimal error structure
C3_Witness ==
    /\ gen_pc = "returned"
    /\ gen_via = "erro"
    /\ conteudo_modulo # Pending
    /\ conteudo_modulo.kind = "json"
    /\ gen_exc = "IOError"
    /\ etapas["cpl_erro"] = PyDict(K("erro") :> PyStr(<<"IOError">>))

\* the FlowResult of the except block
Degradado(r) ==
    /\ r.validacao.estrutura_valida = FALSE
    /\ "erro" \in DOMAIN r.validacao
    /\ DOMAIN r.sumario_executivo = {"erro"}

\* C4: executar_fluxo_completo_cpl never raises; when a step raised it
\* returns the degraded FlowResult, otherwise the assembled FlowResult, which
\* it persisted under "fluxo_cpl_completo".
C4_FluxoNuncaLevanta ==
    /\ flow_pc # "raised"
    /\ flow_pc = "returned" =>
        /\ gen_pc = "raised" => flow_exc # "none"
        /\ IF flow_exc # "none"
           THEN Degradado(flow_ret) /\ flow_ret.validacao.erro = flow_exc
           ELSE /\ flow_ret = resultado_final
                /\ etapas["fluxo_cpl_completo"] = flow_ret
                /\ flow_ret.modulo_cpl = gen_ret
                /\ flow_ret.validacao.estrutura_valida = estrutura_valida
                /\ flow_ret.sumario_executivo = sumario
                /\ "erro" \notin DOMAIN flow_ret.validacao

\* the save tagged "fluxo_cpl_completo" raised and the degraded FlowResult
\* was returned
C4_Witness ==
    /\ flow_pc = "returned"
    /\ gen_pc = "returned"
    /\ resultado_final # Pending
    /\ flow_exc = "IOError"
    /\ Degradado(flow_ret)
    /\ etapas["fluxo_cpl_completo"] = Ausente

(***************************************************************************)
(* Properties of the ranking step                                          *)
(***************************************************************************)
\* the effective score of the candidate at position i of the merged list
Chave(i) == sort_key(combined_social_results[i]).v

\* C9: the ranked list is ordered by non-increasing effective score;
\* candidates of equal effective score keep their order in the merged list
\* (social_results, then youtube_results), and of the equal-score records
\* sharing a url the one kept is the first of the merged list.
C9_OrdemEstavel ==
    rank_pc = "identificado" =>
        /\ \A p, q \in 1..Len(viral_idx) :
              p < q => \/ Chave(viral_idx[p]) > Chave(viral_idx[q])
                       \/ Chave(viral_idx[p]) = Chave(viral_idx[q]) /\ viral_idx[p] < viral_idx[q]
        /\ \A p \in 1..Len(viral_idx) : \A j \in 1..Len(combined_social_results) :
              (/\ url_de(combined_social_results, j).v = url_de(combined_social_results, viral_idx[p]).v
               /\ Chave(j) = Chave(viral_idx[p]))
                  => viral_idx[p] <= j
        /\ \A p \in 1..Len(viral_idx) :
              /\ viral_idx[p] \in 1..Len(combined_social_results)
              /\ viral_content_identified[p] = combined_social_results[viral_idx[p]]
        /\ Len(viral_content_identified) = Len(viral_idx)

\* two records of one url and of equal score 9, the second from
\* youtube_results: the first was kept, ahead of a record of score 5
C9_Witness ==
    /\ rank_pc = "identificado"
    /\ Len(social_results) = 2 /\ Len(youtube_results) = 1
    /\ Chave(1) = 5 /\ Chave(2) = 9 /\ Chave(3) = 9
    /\ url_de(combined_social_results, 2) = url_de(combined_social_results, 3)
    /\ combined_social_results[2] # combined_social_results[3]
    /\ viral_idx = <<2, 1>>

\* a field that holds a number or the text of a number
Numerico(item, campo) == campo \in DOMAIN item.d /\ PyFloat(item.d[campo]).ok

\* the effective score as claimed: viral_score, else engagement_rate, else 0,
\* skipping a field that is absent or not numeric
PontuacaoDeclarada(item) ==
    IF Numerico(item, K("viral_score")) THEN PyFloat(item.d[K("viral_score")]).v
    ELSE IF Numerico(item, K("engagement_rate")) THEN PyFloat(item.d[K("engagement_rate")]).v
    ELSE 0

\* C10: the score a candidate is ranked by is its viral_score, falling back
\* to its engagement_rate and then to 0 when the preferred field is absent or
\* not numeric; no value makes the ranking raise.
C10_PontuacaoEfetiva ==
    /\ rank_pc # "raised"
    /\ rank_pc = "identificado" =>
        /\ \A i \in 1..Len(combined_social_results) :
              Chave(i) = PontuacaoDeclarada(combined_social_results[i])
        /\ \A p, q \in 1..Len(viral_idx) :
              p < q => PontuacaoDeclarada(combined_social_results[viral_idx[p]])
                           >= PontuacaoDeclarada(combined_social_results[viral_idx[q]])

\* Claim C11: the ranked list is exactly the first LimiteViral (20) elements
\* of the sequence obtained from the candidates sorted by descending score
\* (equal scores in input order) by removing those with an empty or missing
\* url and those whose url occurs earlier in that order.
C11_Precede(j, i) ==
    \/ sort_key(combined_social_results[j]).v > sort_key(combined_social_results[i]).v
    \/ /\ sort_key(combined_social_results[j]).v = sort_key(combined_social_results[i]).v
       /\ j < i

C11_Representantes ==
    {i \in 1..Len(combined_social_results) :
        /\ PyTruthy(url_de(combined_social_results, i).v)
        /\ \A j \in 1..Len(combined_social_results) :
              (j # i /\ url_de(combined_social_results, j).v = url_de(combined_social_results, i).v)
                  => C11_Precede(i, j)}

C11_Min(a, b) == IF a < b THEN a ELSE b

C11_PrimeirosVinte ==
    rank_pc = "identificado" =>
        /\ Len(viral_idx) = C11_Min(20, Cardinality(C11_Representantes))
        /\ \A p \in 1..Len(viral_idx) :
              /\ viral_idx[p] \in C11_Representantes
              /\ Cardinality({j \in C11_Representantes : C11_Precede(j, viral_idx[p])}) = p - 1
              /\ viral_content_identified[p] = combined_social_results[viral_idx[p]]

\* 25 candidates with 25 different urls were ranked and 20 came out
C11_Witness ==
    /\ rank_pc = "identificado"
    /\ Len(combined_social_results) = 25
    /\ Cardinality(C11_Representantes) = 25
    /\ Len(viral_idx) = 20

\* Claim C12: the capture loop takes the ranked candidates in rank order and
\* ends only when all were processed or max_captures records exist; a
\* candidate whose attempts fail does not end the loop; no candidate is
\* attempted once max_captures records exist; so, for max_captures >= 0, the
\* number of records never exceeds max_captures.
C12_EmOrdem ==
    /\ \A t \in 1..Len(tentativas) : tentativas[t].i <= cap_i
    /\ \A t \in 1..(Len(tentativas) - 1) : tentativas[t].i <= tentativas[t + 1].i
    /\ \A t \in 1..Len(tentativas) :
         tentativas[t].i = cap_i => cap_pc \in {"normal", "expandida"}

C12_LacoLimitado ==
    /\ Len(screenshots) <= max_captures
    /\ C12_EmOrdem
    /\ cap_pc \in {"expandida", "normal"} =>
         /\ Len(screenshots) < max_captures
         /\ cap_i \in 1..Len(viral_content_identified)
    /\ cap_pc = "finally" =>
         \/ cap_i = Len(viral_content_identified) + 1
         \/ Len(screenshots) = max_captures

\* the first candidate failed in both attempts, a later one was captured,
\* and the loop stopped at max_captures with a candidate left
C12_Witness ==
    /\ cap_pc = "retornou"
    /\ driver = "encerrado"
    /\ max_captures >= 1
    /\ Len(screenshots) = max_captures
    /\ cap_i <= Len(viral_content_identified)
    /\ \E t \in 1..Len(tentativas) :
         tentativas[t].i = 1 /\ tentativas[t].metodo = "full_page" /\ ~tentativas[t].ret

\* Claim C13: in both capture strategies a record is appended only after the
\* file saved by the attempt exists with a size above 1024 bytes; an attempt
\* whose file is not larger reports failure, appends no record and deletes
\* the file, so no file of at most 1024 bytes is referenced by the list or
\* left on disk.
C13_Sucessos == SelectSeq(tentativas, LAMBDA t : t.ret)

C13_NomeDaTentativa(t) ==
    <<IF t.metodo = "expanded_view" THEN "viral_post_" ELSE "viral_web_",
      "0", ToString(t.i), ".png">>

C14_SessaoEncerrada ==
    cap_pc = "retornou" => driver # "ativo"

\* Claim C15: on an unexpected exception in the outer flow an error record
\* is written to analise_viral_erro.json, the exception is propagated and
\* analise_viral_resumo.json is not written by the call; a call that
\* returns normally writes no error record.
C15_RegistroDeErro(arquivo) ==
    /\ arquivo # Ausente
    /\ arquivo # Parcial
    /\ arquivo.error = TRUE
    /\ arquivo.error_message = an_exc
    /\ arquivo.summary.critical_error = an_exc
    /\ arquivo.viral_content_identified = <<>>
    /\ arquivo.screenshots_captured = <<>>

C15_ErroRegistrado ==
    /\ an_pc = "raised" =>
         /\ C15_RegistroDeErro(erro_json)
         /\ an_exc # "none"
         /\ resumo_json = Ausente
    /\ an_pc = "retornou" => erro_json = Ausente

\* Claim C15, amended: on an unexpected exception in the outer flow the call
\* raises and analise_viral_resumo.json is not written; the error record is
\* written on a best-effort basis: never when the session directory cannot
\* be created, and whatever is left complete in analise_viral_erro.json is
\* the error record of the propagated exception; a call that returns
\* normally writes no error record.
C15_ErroRegistradoEmendado ==
    /\ an_pc = "raised" =>
         /\ an_exc # "none"
         /\ an_ret = Pending
         /\ resumo_json = Ausente
         /\ ~dir_sessao_ok => erro_json = Ausente
         /\ erro_json \notin {Ausente, Parcial} => C15_RegistroDeErro(erro_json)
    /\ an_pc = "retornou" => erro_json = Ausente /\ an_exc = "none"

\* the ranking raised on an element that is not an object, and the handler
\* wrote the error record before raising
C15_Witness ==
    /\ an_pc = "raised"
    /\ rank_pc = "raised"
    /\ C15_RegistroDeErro(erro_json)

\* Claim C16: when the browser dependency is unavailable (the import fails
\* or the driver does not start) analyze_viral_content does not raise: it
\* returns a result whose screenshots_captured is empty and whose
\* viral_content_identified is still the ranked list.
C16_SemNavegador ==
    (selenium # "ok" /\ cap_pc # "parado") =>
        /\ cap_pc = "retornou"
        /\ an_pc \in {"ranking", "retornou"}
        /\ driver = "nenhum"
        /\ screenshots = <<>>
        /\ an_pc = "retornou" =>
             /\ an_ret.screenshots_captured = <<>>
             /\ an_ret.summary.screenshots_taken = 0
             /\ an_ret.viral_content_identified
                  = [p \in 1..Len(viral_idx) |-> combined_social_results[viral_idx[p]]]
             /\ an_ret.summary.viral_content_found = Len(viral_idx)

\* the driver did not start, three candidates had been ranked, and the call
\* returned them without screenshots
C16_Witness ==
    /\ selenium = "driver_error"
    /\ an_pc = "retornou"
    /\ Len(an_ret.viral_content_identified) = 3
    /\ an_ret.screenshots_captured = <<>>

\* Claim C17: when the research file is absent or cannot be read the call
\* does not raise in the loading step and goes on with an empty research
\* set: zero candidates, viral_content_found = 0 and no screenshots.
C17_PesquisaVazia ==
    pesquisa.estado \in {"ausente", "ilegivel"} =>
        /\ dir_sessao_ok => an_pc \notin {"except", "raised"}
        /\ social_results = <<>> /\ youtube_results = <<>>
        /\ driver = "nenhum" /\ tentativas = <<>> /\ arquivos = {}
        /\ an_pc = "retornou" =>
             /\ an_ret.viral_content_identified = <<>>
             /\ an_ret.screenshots_captured = <<>>
             /\ an_ret.summary.total_social_items_analyzed = 0
             /\ an_ret.summary.viral_content_found = 0
             /\ an_ret.summary.screenshots_taken = 0

\* the research file could not be parsed and the call returned
C17_Witness ==
    /\ pesquisa.estado = "ilegivel"
    /\ pesquisa.erro = "JSONDecodeError"
    /\ an_pc = "retornou"
    /\ an_ret.summary.viral_content_found = 0

\* Claim C18: for each ranked candidate processed by the capture loop, the
\* expanded-view capture is attempted only when the lower-cased platform
\* contains "facebook" or "instagram", and the full-page capture is
\* attempted exactly when no expanded-view capture of the candidate produced
\* a record; so each candidate contributes at most one record, whose
\* capture_method is "expanded_view" or "full_page".
C18_Tentativas(p, metodo) ==
    {t \in 1..Len(tentativas) : tentativas[t].i = p /\ tentativas[t].metodo = metodo}

C18_Registros(p) ==
    {r \in 1..Len(screenshots) : screenshots[r].content_data = viral_content_identified[p]}

C18_Expansivel(p) ==
    LET bruta == PyGet(viral_content_identified[p], K("platform"), PyStr(<<"web">>)).v
    IN  /\ bruta.t = "str"
        /\ \E k \in 1..Len(bruta.s) : bruta.s[k] \in {"facebook", "Facebook", "instagram", "INSTAGRAM"}

C18_UmaCapturaPorCandidato ==
    \A p \in 1..Len(viral_content_identified) :
        (cap_pc \in {"laco", "finally", "retornou"} /\ p < cap_i) =>
            /\ C18_Tentativas(p, "expanded_view") # {} => C18_Expansivel(p)
            /\ C18_Tentativas(p, "full_page") # {}
                 <=> ~\E r \in C18_Registros(p) : screenshots[r].capture_method = "expanded_view"
            /\ Cardinality(C18_Registros(p)) <= 1
            /\ \A r \in C18_Registros(p) :
                 screenshots[r].capture_method \in {"expanded_view", "full_page"}

\* Claim C19: an expanded-view record is named viral_post_{index:02d}.png and
\* a full-page record viral_web_{index:02d}.png, index being the 1-based
\* position of the candidate in the ranked list; so the filenames of one
\* call are pairwise distinct and the indices increase strictly along the
\* returned list.
C19_Posicao(r) ==
    CHOOSE p \in 1..Len(viral_content_identified) :
        screenshots[r].content_data = viral_content_identified[p]

C19_NomesPorPosicao ==
    /\ \A r \in 1..Len(screenshots) :
         /\ \E p \in 1..Len(viral_content_identified) :
              screenshots[r].content_data = viral_content_identified[p]
         /\ screenshots[r].capture_method = "expanded_view" =>
              screenshots[r].filename = <<"viral_post_", "0", ToString(C19_Posicao(r)), ".png">>
         /\ screenshots[r].capture_method = "full_page" =>
              screenshots[r].filename = <<"viral_web_", "0", ToString(C19_Posicao(r)), ".png">>
    /\ \A r \in 1..Len(screenshots), q \in 1..Len(screenshots) :
         r < q => /\ screenshots[r].filename # screenshots[q].filename
                  /\ C19_Posicao(r) < C19_Posicao(q)

\* the first candidate was not captured; the second was captured by
\* expanded view and the third by full page, named by their rank positions
C19_Witness ==
    /\ Len(screenshots) = 2
    /\ screenshots[1].filename = <<"viral_post_", "0", "2", ".png">>
    /\ screenshots[2].filename = <<"viral_web_", "0", "3", ".png">>

C21_GerarDegradou ==
    gen_pc = "returned" /\ gen_via \in {"fallback", "erro"}

C21_ContagensZeradas ==
    (flow_pc = "returned" /\ C21_GerarDegradou) =>
        /\ flow_ret.validacao.estrutura_valida = FALSE
        /\ "total_fases_geradas" \in DOMAIN flow_ret.metadados
        /\ flow_ret.metadados.total_fases_geradas = 0
        /\ "total_fases" \in DOMAIN flow_ret.sumario_executivo
        /\ flow_ret.sumario_executivo.total_fases = 0

C21_ValidoSoCompleto ==
    (flow_pc = "returned" /\ flow_ret.validacao.estrutura_valida = TRUE) =>
        /\ conteudo_modulo # Pending
        /\ conteudo_modulo.kind = "json"
        /\ gen_via = "success"
        /\ flow_ret.modulo_cpl = conteudo_modulo.doc
        /\ conteudo_modulo.doc.t = "dict"
        /\ ~ChaveAusente(conteudo_modulo.doc)

C21_DegradacaoVisivel ==
    /\ C21_ContagensZeradas
    /\ C21_ValidoSoCompleto

\* Claim C22: in every result analyze_viral_content returns, for
\* max_captures >= 0, the summary counts agree with the lists and are
\* bounded: screenshots_taken = len(screenshots_captured) <=
\* min(max_captures, viral_content_found), viral_content_found =
\* len(viral_content_identified) <= min(20, total_social_items_analyzed),
\* and every record of screenshots_captured has the url of an entry of
\* viral_content_identified.
C22_ContagensCoerentes ==
    an_pc = "retornou" =>
        /\ an_ret.summary.screenshots_taken = Len(an_ret.screenshots_captured)
        /\ an_ret.summary.screenshots_taken <= max_captures
        /\ an_ret.summary.screenshots_taken <= an_ret.summary.viral_content_found
        /\ an_ret.summary.viral_content_found = Len(an_ret.viral_content_identified)
        /\ an_ret.summary.viral_content_found <= 20
        /\ an_ret.summary.viral_content_found <= an_ret.summary.total_social_items_analyzed
        /\ an_ret.summary.total_social_items_analyzed = Len(social_results) + Len(youtube_results)
        /\ \A r \in 1..Len(an_ret.screenshots_captured) :
             \E p \in 1..Len(an_ret.viral_content_identified) :
                /\ TemChave(an_ret.viral_content_identified[p], K("url"))
                /\ an_ret.screenshots_captured[r].url
                     = an_ret.viral_content_identified[p].d[K("url")]

\* a research file of 25 candidates with 25 urls was analysed with the
\* browser running and the result counts 20 of them
C22_Witness ==
    /\ an_pc = "retornou"
    /\ driver = "encerrado"
    /\ an_ret.summary.total_social_items_analyzed = 25
    /\ an_ret.summary.viral_content_found = 20
    /\ an_ret.summary.screenshots_taken = 0

====
